---- MODULE Spec2Model ----
(***************************************************************************)
(* PrintHook (src/lib/core/media-marshaller/print-hook.ts): interception   *)
(* of MediaChange events, the PrintQueue used while printing and the       *)
(* cache of deactivations restored when printing stops.                    *)
(*                                                                         *)
(* Strings are sequences of one-character strings, so that startsWith is   *)
(* computed on the characters.  An OptionalBreakPoint is a sequence of     *)
(* length 0 (null / undefined) or 1.                                       *)
(***************************************************************************)
EXTENDS Integers, Sequences, FiniteSets, TLC

(* Cap on the length of this.deactivations, which the code never bounds. *)
MaxDeactivations == 2

-----------------------------------------------------------------------------
(* Strings *)

PRINT == <<"p", "r", "i", "n", "t">>

Q_SM == <<"Q", "s">>
Q_MD == <<"Q", "m">>
Q_LG == <<"Q", "l">>
Q_NONE == <<"p", "r">>
Q_PRINT_LO == PRINT \o <<"L">>
Q_PRINT_EQ == PRINT \o <<"E">>
Q_PRINT_HI == PRINT \o <<"H">>
Q_PRINT_NONE == PRINT \o <<"e", "r">>

A_SM == <<"s", "m">>
A_MD == <<"m", "d">>
A_LG == <<"l", "g">>
A_NONE == <<"n", "o">>
A_PRINT_LO == <<"p", "L">>
A_PRINT_EQ == <<"p", "E">>
A_PRINT_HI == <<"p", "H">>

startsWith(s, prefix) ==
  /\ Len(s) >= Len(prefix)
  /\ SubSeq(s, 1, Len(prefix)) = prefix

BREAKPOINT_PRINT == [alias |-> PRINT, mediaQuery |-> PRINT, priority |-> 1000]

-----------------------------------------------------------------------------
(* The collaborators: BreakPointRegistry, LAYOUT_CONFIG, sortDescendingPriority *)

(* The breakpoints the registry holds, mediaQuery being their unique key.  *)
(* Two ordinary breakpoints share a priority; the print-scoped ones lie    *)
(* below, at and above the priority of BREAKPOINT_PRINT.                   *)
items ==
  << [alias |-> A_SM, mediaQuery |-> Q_SM, priority |-> 5],
     [alias |-> A_MD, mediaQuery |-> Q_MD, priority |-> 15],
     [alias |-> A_LG, mediaQuery |-> Q_LG, priority |-> 15],
     [alias |-> A_PRINT_LO, mediaQuery |-> Q_PRINT_LO, priority |-> 500],
     [alias |-> A_PRINT_EQ, mediaQuery |-> Q_PRINT_EQ, priority |-> 1000],
     [alias |-> A_PRINT_HI, mediaQuery |-> Q_PRINT_HI, priority |-> 2000] >>

(* The first element of a list, or none: what Array.prototype.find       *)
(* returns, given the elements that pass its test.                       *)
first(hits) == IF hits = <<>> THEN <<>> ELSE <<hits[1]>>

findByAlias(alias) == first(SelectSeq(items, LAMBDA bp : bp.alias = alias))

findByQuery(query) == first(SelectSeq(items, LAMBDA bp : bp.mediaQuery = query))

(* The values layoutConfig.printWithBreakpoints takes: <<>> is undefined,  *)
(* <<list>> a configured list.                                             *)
LayoutConfigs ==
  { <<>>,
    << <<>> >>,
    << <<A_SM, A_MD, A_LG>> >>,
    << <<A_LG, A_NONE, A_PRINT_LO, A_LG>> >> }

(* The comparator: negative when a sorts before b. *)
sortDescendingPriority(a, b) == b.priority - a.priority

(* Array.prototype.sort with the comparator above: stable. *)
RECURSIVE sort(_)
sort(list) ==
  IF list = <<>> THEN <<>>
  ELSE LET n == Len(list)
           s == sort(SubSeq(list, 1, n - 1))
           x == list[n]
           k == Cardinality({i \in 1..Len(s) : sortDescendingPriority(s[i], x) <= 0})
       IN SubSeq(s, 1, k) \o <<x>> \o SubSeq(s, k + 1, Len(s))

-----------------------------------------------------------------------------
(* State *)

VARIABLES
  printWithBreakpoints, \* layoutConfig.printWithBreakpoints
  printBps,             \* PrintQueue.printBps
  deactivations,        \* PrintHook.deactivations
  activatedBreakpoints, \* target.activatedBreakpoints
  sameArray,            \* target.activatedBreakpoints === this.deactivations
  event,                \* the event the predicate processed last, if any
  result,               \* what the predicate returned for it
  cacheAtStart,         \* deactivations as they were just before the latest
                        \* print-start, while no print-stop has followed it
  styled,               \* target.activatedBreakpoints as each call of
                        \* target.updateStyles() found it, for the last event
  deactivatedSince,     \* the breakpoints ordinary deactivation events named
                        \* since the latest ordinary activation event
  updated               \* the argument and the value of updateEvent, when it
                        \* was called after the last event was processed

vars == <<printWithBreakpoints, printBps, deactivations, activatedBreakpoints,
          sameArray, event, result, cacheAtStart, styled, deactivatedSince,
          updated>>

Queries ==
  {Q_SM, Q_MD, Q_LG, Q_NONE, PRINT, Q_PRINT_LO, Q_PRINT_EQ, Q_PRINT_HI, Q_PRINT_NONE}

MediaChanges == [mediaQuery : Queries, matches : BOOLEAN]

(* MediaChange.mqAlias before any alias is merged into the event. *)
NoAlias == <<>>

-----------------------------------------------------------------------------
(* PrintQueue *)

isPrintBreakPoint(bp) ==
  IF bp # <<>> THEN startsWith(bp[1].mediaQuery, PRINT) ELSE FALSE

hasPrintBps == Len(printBps) > 0

(* addPrintBp without the lookup of an entry with the same mediaQuery. *)
addPrintBp_NoLookup(queue, bp) ==
  IF bp # <<>>
    THEN IF isPrintBreakPoint(bp) THEN bp \o queue ELSE queue \o bp
    ELSE queue

(* addPrintBp appending whatever the breakpoint's mediaQuery. *)
addPrintBp_AlwaysAppend(queue, bp) ==
  IF bp # <<>>
    THEN LET bpInList == first(SelectSeq(queue, LAMBDA it : it.mediaQuery = bp[1].mediaQuery))
         IN IF bpInList = <<>> THEN queue \o bp ELSE queue
    ELSE queue

addPrintBp(queue, bp) ==
  IF bp # <<>>
    THEN LET bpInList == first(SelectSeq(queue, LAMBDA it : it.mediaQuery = bp[1].mediaQuery))
         IN IF bpInList = <<>>
              THEN IF isPrintBreakPoint(bp) THEN bp \o queue ELSE queue \o bp
              ELSE queue
    ELSE queue

RECURSIVE forEachAddPrintBp(_, _)
forEachAddPrintBp(queue, bpList) ==
  IF bpList = <<>> THEN queue
  ELSE forEachAddPrintBp(addPrintBp(queue, <<Head(bpList)>>), Tail(bpList))

(* addPrintBps without the push of BREAKPOINT_PRINT. *)
addPrintBps_NoPrint(queue, bpList) ==
  forEachAddPrintBp(queue, sort(bpList))

(* addPrintBps starting from an empty queue. *)
addPrintBps_Fresh(queue, bpList) ==
  forEachAddPrintBp(<<>>, sort(Append(bpList, BREAKPOINT_PRINT)))

addPrintBps(queue, bpList) ==
  forEachAddPrintBp(queue, sort(Append(bpList, BREAKPOINT_PRINT)))

-----------------------------------------------------------------------------
(* PrintHook *)

isPrintEvent(e) == startsWith(e.mediaQuery, PRINT)

isPrinting == hasPrintBps

printAlias ==
  IF printWithBreakpoints # <<>> THEN printWithBreakpoints[1] ELSE <<>>

RECURSIVE mapFindByAlias(_)
mapFindByAlias(aliases) ==
  IF aliases = <<>> THEN <<>>
  ELSE findByAlias(Head(aliases)) \o mapFindByAlias(Tail(aliases))

printBreakPoints == mapFindByAlias(printAlias)

(* getEventBreakpoints without the sort. *)
getEventBreakpoints_NoSort(e) ==
  LET bp == findByQuery(e.mediaQuery)
  IN IF bp # <<>> THEN printBreakPoints \o bp ELSE printBreakPoints

getEventBreakpoints(e) ==
  LET bp == findByQuery(e.mediaQuery)
      list == IF bp # <<>> THEN printBreakPoints \o bp ELSE printBreakPoints
  IN sort(list)

(* startPrinting handing the target the candidates, not the queue. *)
startPrinting_CandidatesOnly(bpList) ==
  /\ printBps' = addPrintBps(printBps, bpList)
  /\ activatedBreakpoints' = sort(Append(bpList, BREAKPOINT_PRINT))
  /\ sameArray' = FALSE
  /\ UNCHANGED deactivations

startPrinting(bpList) ==
  /\ printBps' = addPrintBps(printBps, bpList)
  /\ activatedBreakpoints' = printBps'
  /\ sameArray' = FALSE
  /\ UNCHANGED deactivations

(* stopPrinting without the test of isPrinting. *)
stopPrinting_NoGuard ==
  /\ printBps' = <<>>
  /\ activatedBreakpoints' = deactivations
  /\ sameArray' = TRUE
  /\ UNCHANGED deactivations

(* stopPrinting clearing the cache once it is restored. *)
stopPrinting_ClearsCache ==
  IF isPrinting
    THEN /\ printBps' = <<>>
         /\ activatedBreakpoints' = deactivations
         /\ deactivations' = <<>>
         /\ sameArray' = FALSE
    ELSE UNCHANGED <<printBps, activatedBreakpoints, sameArray, deactivations>>

stopPrinting ==
  IF isPrinting
    THEN /\ printBps' = <<>>
         /\ activatedBreakpoints' = deactivations
         /\ sameArray' = TRUE
         /\ UNCHANGED deactivations
    ELSE UNCHANGED <<printBps, activatedBreakpoints, sameArray, deactivations>>

(* collectActivations clearing the print queue, too, on an activation. *)
collectActivations_ClearsQueue(e) ==
  IF e.matches = FALSE
    THEN LET bp == findByQuery(e.mediaQuery)
         IN /\ IF bp # <<>>
                  THEN /\ Len(deactivations) < MaxDeactivations
                       /\ deactivations' = sort(deactivations \o bp)
                       /\ activatedBreakpoints' =
                            IF sameArray THEN deactivations' ELSE activatedBreakpoints
                       /\ UNCHANGED sameArray
                  ELSE UNCHANGED <<deactivations, activatedBreakpoints, sameArray>>
            /\ UNCHANGED printBps
    ELSE /\ deactivations' = <<>>
         /\ printBps' = <<>>
         /\ sameArray' = FALSE
         /\ UNCHANGED activatedBreakpoints

(* collectActivations pushing without the sort that follows. *)
collectActivations_NoSort(e) ==
  /\ IF e.matches = FALSE
       THEN LET bp == findByQuery(e.mediaQuery)
            IN IF bp # <<>>
                 THEN /\ Len(deactivations) < MaxDeactivations
                      /\ deactivations' = deactivations \o bp
                      /\ activatedBreakpoints' =
                           IF sameArray THEN deactivations' ELSE activatedBreakpoints
                      /\ UNCHANGED sameArray
                 ELSE UNCHANGED <<deactivations, activatedBreakpoints, sameArray>>
       ELSE /\ deactivations' = <<>>
            /\ sameArray' = FALSE
            /\ UNCHANGED activatedBreakpoints
  /\ UNCHANGED printBps

(* collectActivations with the else on the inner if: the cache is cleared  *)
(* by a deactivation that does not resolve, and kept by an activation.     *)
collectActivations_ElseOnInnerIf(e) ==
  /\ IF e.matches = FALSE
       THEN LET bp == findByQuery(e.mediaQuery)
            IN IF bp # <<>>
                 THEN /\ Len(deactivations) < MaxDeactivations
                      /\ deactivations' = sort(deactivations \o bp)
                      /\ activatedBreakpoints' =
                           IF sameArray THEN deactivations' ELSE activatedBreakpoints
                      /\ UNCHANGED sameArray
                 ELSE /\ deactivations' = <<>>
                      /\ sameArray' = FALSE
                      /\ UNCHANGED activatedBreakpoints
       ELSE UNCHANGED <<deactivations, activatedBreakpoints, sameArray>>
  /\ UNCHANGED printBps

collectActivations(e) ==
  /\ IF e.matches = FALSE
       THEN LET bp == findByQuery(e.mediaQuery)
            IN IF bp # <<>>
                 THEN /\ Len(deactivations) < MaxDeactivations
                      /\ deactivations' = sort(deactivations \o bp)
                      /\ activatedBreakpoints' =
                           IF sameArray THEN deactivations' ELSE activatedBreakpoints
                      /\ UNCHANGED sameArray
                 ELSE UNCHANGED <<deactivations, activatedBreakpoints, sameArray>>
       ELSE /\ deactivations' = <<>>
            /\ sameArray' = FALSE
            /\ UNCHANGED activatedBreakpoints
  /\ UNCHANGED printBps

(* The test without isPrinting. *)
stopPropagation_PrintEventOnly(printing, e) == isPrintEvent(e)

(* The predicate's "stop event propagation ?" test, on the state the event left. *)
stopPropagation(printing, e) == printing \/ isPrintEvent(e)

(* interceptEvents with the updateStyles of a print-stop moved under the  *)
(* test of isPrinting that stopPrinting makes.                           *)
interceptEvents_StylesWhenStopped(e) ==
  /\ IF isPrintEvent(e)
       THEN /\ IF e.matches
                 THEN /\ startPrinting(getEventBreakpoints(e))
                      /\ styled' = <<activatedBreakpoints'>>
                      /\ cacheAtStart' = <<deactivations>>
                 ELSE /\ stopPrinting
                      /\ styled' = IF isPrinting THEN <<activatedBreakpoints'>> ELSE <<>>
                      /\ cacheAtStart' = <<>>
            /\ UNCHANGED deactivatedSince
       ELSE /\ collectActivations(e)
            /\ styled' = <<>>
            /\ deactivatedSince' =
                 IF e.matches THEN {}
                 ELSE deactivatedSince \cup {findByQuery(e.mediaQuery)[i] :
                                               i \in 1..Len(findByQuery(e.mediaQuery))}
            /\ UNCHANGED cacheAtStart
  /\ event' = <<e>>
  /\ result' = ~stopPropagation(isPrinting', e)
  /\ updated' = <<>>
  /\ UNCHANGED printWithBreakpoints

interceptEvents(e) ==
  /\ IF isPrintEvent(e)
       THEN /\ IF e.matches
                 THEN /\ startPrinting(getEventBreakpoints(e))
                      /\ styled' = <<activatedBreakpoints'>>
                      /\ cacheAtStart' = <<deactivations>>
                 ELSE /\ stopPrinting
                      /\ styled' = <<activatedBreakpoints'>>
                      /\ cacheAtStart' = <<>>
            /\ UNCHANGED deactivatedSince
       ELSE /\ collectActivations(e)
            /\ styled' = <<>>
            /\ deactivatedSince' =
                 IF e.matches THEN {}
                 ELSE deactivatedSince \cup {findByQuery(e.mediaQuery)[i] :
                                               i \in 1..Len(findByQuery(e.mediaQuery))}
            /\ UNCHANGED cacheAtStart
  /\ event' = <<e>>
  /\ result' = ~stopPropagation(isPrinting', e)
  /\ updated' = <<>>
  /\ UNCHANGED printWithBreakpoints

(* mergeAlias(dest, source): the alias of the breakpoint, when there is   *)
(* one, is merged into the event; its mediaQuery is left alone.           *)
mergeAlias(dest, source) ==
  IF source # <<>> THEN [dest EXCEPT !.mqAlias = source[1].alias] ELSE dest

(* The value updateEvent returns for the event e. *)
updateEventValue(e) ==
  LET found == findByQuery(e.mediaQuery)
      list == getEventBreakpoints(e)
      bp == IF isPrintEvent(e) THEN first(list) ELSE found
      ev == IF isPrintEvent(e)
              THEN [e EXCEPT !.mediaQuery = IF bp # <<>> THEN bp[1].mediaQuery ELSE <<>>]
              ELSE e
  IN mergeAlias(ev, bp)

updateEvent(e) ==
  /\ updated' = <<[arg |-> e, value |-> updateEventValue(e)]>>
  /\ UNCHANGED <<printWithBreakpoints, printBps, deactivations, activatedBreakpoints,
                 sameArray, event, result, cacheAtStart, styled, deactivatedSince>>

-----------------------------------------------------------------------------
(* Specification *)

Init ==
  /\ printWithBreakpoints \in LayoutConfigs
  /\ printBps = <<>>
  /\ deactivations = <<>>
  /\ activatedBreakpoints = <<>>
  /\ sameArray = FALSE
  /\ event = <<>>
  /\ result = TRUE
  /\ cacheAtStart = <<>>
  /\ styled = <<>>
  /\ deactivatedSince = {}
  /\ updated = <<>>

Next == \E e \in MediaChanges : interceptEvents(e)

Spec == Init /\ [][Next]_vars

(* updateEvent reads the registry and the configuration only.  It is      *)
(* applied to every event, in the states a few events delivered to the    *)
(* predicate lead to: the print events, which fill and empty the queue,   *)
(* and the ordinary events for one query, which fill and empty the cache. *)
UpdateContext ==
  {e \in MediaChanges : isPrintEvent(e) \/ e.mediaQuery = Q_SM}

NextUpdate ==
  \/ \E e \in MediaChanges : updateEvent(e @@ [mqAlias |-> NoAlias])
  \/ \E e \in UpdateContext : interceptEvents(e)

SpecUpdate == Init /\ [][NextUpdate]_vars

-----------------------------------------------------------------------------
(* Vocabulary of the properties *)

Range(list) == {list[i] : i \in 1..Len(list)}

UniqueByQuery(list) ==
  \A i, j \in 1..Len(list) : list[i].mediaQuery = list[j].mediaQuery => i = j

IsPrintScoped(bp) == startsWith(bp.mediaQuery, PRINT)

Handled(e) == event = <<e>>

IsPrintStart(e) == isPrintEvent(e) /\ e.matches

IsPrintStop(e) == isPrintEvent(e) /\ ~e.matches

IsOrdinary(e) == ~isPrintEvent(e)

(* The event a step processes is the one event' holds. *)
Processed(P(_)) == event' # <<>> /\ P(event'[1])

LastWas(P(_)) == event # <<>> /\ P(event[1])

BP_SM == items[1]
BP_MD == items[2]
BP_LG == items[3]
BP_PRINT_LO == items[4]
BP_PRINT_EQ == items[5]
BP_PRINT_HI == items[6]

-----------------------------------------------------------------------------
(* C1: a print-stop that follows a print-start, with ordinary events only  *)
(* in between, leaves isPrinting false and target.activatedBreakpoints     *)
(* equal to what the restore cache held just before that print-start.      *)
C1_StopRestoresCacheAtStart ==
  [][ (cacheAtStart # <<>> /\ Processed(IsPrintStop))
        => (~isPrinting' /\ activatedBreakpoints' = cacheAtStart[1]) ]_vars

-----------------------------------------------------------------------------
(* C2 as stated: after any print-start, isPrinting holds and the target's  *)
(* breakpoints are exactly the resolved print aliases, the breakpoint of   *)
(* the event's query and BREAKPOINT_PRINT, no two sharing a mediaQuery.    *)
C2_StartSetsExactlyCandidates ==
  LastWas(IsPrintStart) =>
    /\ isPrinting
    /\ Range(activatedBreakpoints) =
         Range(printBreakPoints) \cup Range(findByQuery(event[1].mediaQuery))
           \cup {BREAKPOINT_PRINT}
    /\ UniqueByQuery(activatedBreakpoints)

(* C2 amended: after any print-start, isPrinting holds and the target's    *)
(* breakpoints are exactly those the print queue already held before the   *)
(* event, the resolved print aliases, the breakpoint of the event's query  *)
(* and BREAKPOINT_PRINT, no two sharing a mediaQuery.                      *)
C2_StartAddsCandidates ==
  [][ Processed(IsPrintStart) =>
        /\ isPrinting'
        /\ Range(activatedBreakpoints') =
             Range(printBps) \cup Range(printBreakPoints)
               \cup Range(findByQuery(event'[1].mediaQuery)) \cup {BREAKPOINT_PRINT}
        /\ UniqueByQuery(activatedBreakpoints')
        /\ (~isPrinting =>
              Range(activatedBreakpoints') =
                Range(printBreakPoints) \cup Range(findByQuery(event'[1].mediaQuery))
                  \cup {BREAKPOINT_PRINT}) ]_vars

(* A print-start for the plain print query, processed while a print-start  *)
(* for another print query is still in effect, whose breakpoint stays.     *)
C2_Witness ==
  /\ LastWas(IsPrintStart)
  /\ event[1].mediaQuery = PRINT
  /\ printWithBreakpoints = << <<A_SM, A_MD, A_LG>> >>
  /\ BP_PRINT_LO \in Range(activatedBreakpoints)
  /\ Len(activatedBreakpoints) = 5

-----------------------------------------------------------------------------
(* C3: the predicate returns false for every print event and whenever      *)
(* isPrinting holds once the event is processed, true otherwise; ordinary  *)
(* events between a print-start and the next print-stop are suppressed,    *)
(* ordinary events while not printing are propagated.                      *)
C3_Gating ==
  [][ event' # <<>> =>
        /\ (isPrintEvent(event'[1]) \/ isPrinting') => (result' = FALSE)
        /\ ~(isPrintEvent(event'[1]) \/ isPrinting') => (result' = TRUE)
        /\ (IsOrdinary(event'[1]) /\ cacheAtStart # <<>>) => (result' = FALSE)
        /\ (IsOrdinary(event'[1]) /\ ~isPrinting) => (result' = TRUE) ]_vars

(* An ordinary deactivation delivered while printing was suppressed. *)
C3_Witness ==
  /\ LastWas(IsOrdinary)
  /\ cacheAtStart # <<>>
  /\ isPrinting
  /\ result = FALSE
  /\ deactivations # <<>>

-----------------------------------------------------------------------------
(* C4: processing an ordinary event never changes                          *)
(* target.activatedBreakpoints (same elements, same order).                *)
C4_OrdinaryKeepsTarget ==
  [][ Processed(IsOrdinary) => activatedBreakpoints' = activatedBreakpoints ]_vars

-----------------------------------------------------------------------------
(* C5: the restore cache never holds two entries with the same mediaQuery. *)
C5_CacheUniqueByQuery == UniqueByQuery(deactivations)

-----------------------------------------------------------------------------
-----------------------------------------------------------------------------
(* C7: the restore cache is ordered by non-increasing priority, and a      *)
(* newly deactivated breakpoint goes behind every entry of equal or higher *)
(* priority while the entries already cached keep their order.             *)
C7_CacheSorted ==
  \A i, j \in 1..Len(deactivations) :
    i < j => deactivations[i].priority >= deactivations[j].priority

C7_ArrivalOrder ==
  (Processed(IsOrdinary) /\ deactivations' # deactivations /\ deactivations' # <<>>)
    => \E k \in 0..Len(deactivations) :
         LET bp == findByQuery(event'[1].mediaQuery)[1]
         IN /\ deactivations' =
                 SubSeq(deactivations, 1, k) \o <<bp>>
                   \o SubSeq(deactivations, k + 1, Len(deactivations))
            /\ \A i \in 1..k : deactivations[i].priority >= bp.priority
            /\ \A i \in (k + 1)..Len(deactivations) :
                 deactivations[i].priority < bp.priority

C7_CacheOrder == []C7_CacheSorted /\ [][C7_ArrivalOrder]_vars

(* The priority-5 breakpoint deactivated first, then a priority-15 one;    *)
(* and two priority-15 breakpoints in the order LG, MD they arrived in.    *)
C7_Witness ==
  \/ /\ deactivations = <<BP_MD, BP_SM>>
     /\ LastWas(LAMBDA e : e.mediaQuery = Q_MD)
  \/ /\ deactivations = <<BP_LG, BP_MD>>
     /\ LastWas(LAMBDA e : e.mediaQuery = Q_MD)

-----------------------------------------------------------------------------
(* C8: while isPrinting holds the print queue contains BREAKPOINT_PRINT    *)
(* and no two of its entries share a mediaQuery.                           *)
C8_QueueHasPrintAndIsUnique ==
  isPrinting =>
    /\ \E i \in 1..Len(printBps) :
         /\ printBps[i] = BREAKPOINT_PRINT
         /\ printBps[i].mediaQuery = PRINT
         /\ printBps[i].priority = 1000
    /\ UniqueByQuery(printBps)

(* Several print-starts since the last print-stop: no alias is configured, *)
(* so each print-scoped registry breakpoint came with its own print-start. *)
C8_Witness ==
  /\ isPrinting
  /\ printWithBreakpoints = <<>>
  /\ {BP_PRINT_LO, BP_PRINT_HI, BP_PRINT_EQ} \subseteq Range(printBps)

-----------------------------------------------------------------------------
(* C9: while isPrinting holds, BREAKPOINT_PRINT stands in the print queue  *)
(* behind every other queued breakpoint whose mediaQuery starts with       *)
(* 'print', whatever that breakpoint's priority.                           *)
C9_PrintBehindPrintScoped ==
  isPrinting =>
    \A i, j \in 1..Len(printBps) :
      (printBps[j] = BREAKPOINT_PRINT /\ i # j /\ IsPrintScoped(printBps[i])) => i < j

-----------------------------------------------------------------------------
(* C10: after any print-start, in target.activatedBreakpoints every        *)
(* print-scoped breakpoint precedes every other one, and the others stand  *)
(* in descending priority, those of equal priority in the order of their   *)
(* aliases in printWithBreakpoints.                                        *)
FirstIndex(list, x) ==
  CHOOSE i \in 1..Len(list) : list[i] = x /\ \A j \in 1..(i - 1) : list[j] # x

C10_PrintScopedFirstThenPriority ==
  LastWas(IsPrintStart) =>
    \A i, j \in 1..Len(activatedBreakpoints) :
      LET a == activatedBreakpoints[i]
          b == activatedBreakpoints[j]
      IN i < j =>
           /\ ~(~IsPrintScoped(a) /\ IsPrintScoped(b))
           /\ (~IsPrintScoped(a) /\ ~IsPrintScoped(b)) =>
                \/ a.priority > b.priority
                \/ /\ a.priority = b.priority
                   /\ FirstIndex(printAlias, a.alias) < FirstIndex(printAlias, b.alias)

(* From an empty queue, aliases sm(5), md(15), lg(15) and a print query    *)
(* the registry does not know: [PRINT(1000), MD(15), LG(15), SM(5)].       *)
C10_Witness ==
  /\ LastWas(IsPrintStart)
  /\ cacheAtStart # <<>>
  /\ printWithBreakpoints = << <<A_SM, A_MD, A_LG>> >>
  /\ activatedBreakpoints = <<BREAKPOINT_PRINT, BP_MD, BP_LG, BP_SM>>

-----------------------------------------------------------------------------
(* C11: a print-stop processed while isPrinting is false changes neither   *)
(* the print queue, the restore cache nor target.activatedBreakpoints, and *)
(* every print-stop leaves isPrinting false, so that a second print-stop   *)
(* in a row changes nothing the first one left.                            *)
C11_StopIdempotent ==
  [][ Processed(IsPrintStop) =>
        /\ ~isPrinting'
        /\ ~isPrinting =>
             UNCHANGED <<printBps, deactivations, activatedBreakpoints>>
        /\ LastWas(IsPrintStop) =>
             UNCHANGED <<printBps, deactivations, activatedBreakpoints>> ]_vars

(* A print-stop processed while not printing: the target's list is not the *)
(* cache a print-stop that acts would have handed over.                    *)
C11_Witness ==
  /\ LastWas(IsPrintStop)
  /\ ~isPrinting
  /\ deactivations = <<BP_SM>>
  /\ activatedBreakpoints = <<>>
  /\ ~sameArray

-----------------------------------------------------------------------------
-----------------------------------------------------------------------------
(* C13: updateEvent gives a print event the mediaQuery of the breakpoint   *)
(* of highest priority among the resolved print aliases followed by the    *)
(* breakpoint of the event's own query, the first of them in that order    *)
(* when several share the highest priority, or the empty string when none  *)
(* resolves; it leaves the mediaQuery of any other event as it is; and it  *)
(* touches neither the print queue, the restore cache nor the target.      *)
C13_Value ==
  updated # <<>> =>
    LET a == updated[1].arg
        v == updated[1].value
        L == printBreakPoints \o findByQuery(a.mediaQuery)
    IN /\ v.matches = a.matches
       /\ IF isPrintEvent(a)
            THEN IF L = <<>>
                   THEN v.mediaQuery = <<>>
                   ELSE \E i \in 1..Len(L) :
                          /\ v.mediaQuery = L[i].mediaQuery
                          /\ \A j \in 1..Len(L) : L[j].priority <= L[i].priority
                          /\ \A j \in 1..(i - 1) : L[j].priority < L[i].priority
            ELSE v.mediaQuery = a.mediaQuery

C13_Frame ==
  (updated' # <<>>) =>
    UNCHANGED <<printBps, deactivations, activatedBreakpoints, sameArray>>

C13_UpdateEvent == []C13_Value /\ [][C13_Frame]_vars

(* The plain print event updated while printing, with aliases sm(5),       *)
(* md(15), lg(15): the mediaQuery becomes that of md.                      *)
C13_Witness ==
  /\ updated # <<>>
  /\ updated[1].arg.mediaQuery = PRINT
  /\ updated[1].value.mediaQuery = Q_MD
  /\ printWithBreakpoints = << <<A_SM, A_MD, A_LG>> >>
  /\ isPrinting
  /\ deactivations # <<>>

-----------------------------------------------------------------------------
(* C14: a print-start adds to the print queue only BREAKPOINT_PRINT and    *)
(* breakpoints of the registry that a configured alias or the event's      *)
(* query resolves to; with printWithBreakpoints undefined or empty and a   *)
(* query that does not resolve, a print-start from a non-printing state    *)
(* sets target.activatedBreakpoints to [PRINT].                            *)
C14_UnresolvedDropped ==
  [][ Processed(IsPrintStart) =>
        /\ (Range(printBps') \ Range(printBps)) \subseteq
             ({BREAKPOINT_PRINT} \cup
              {bp \in Range(items) :
                 \/ \E i \in 1..Len(printAlias) : printAlias[i] = bp.alias
                 \/ bp.mediaQuery = event'[1].mediaQuery})
        /\ Len(printBps') <=
             Len(printBps) + 1 + Len(findByQuery(event'[1].mediaQuery))
               + Cardinality({i \in 1..Len(printAlias) : findByAlias(printAlias[i]) # <<>>})
        /\ (~isPrinting /\ printAlias = <<>> /\ findByQuery(event'[1].mediaQuery) = <<>>)
             => activatedBreakpoints' = <<BREAKPOINT_PRINT>> ]_vars

(* A print-start for a print query the registry does not know, with an     *)
(* alias list naming an alias the registry does not know either.           *)
C14_Witness ==
  /\ LastWas(IsPrintStart)
  /\ event[1].mediaQuery = Q_PRINT_NONE
  /\ printWithBreakpoints = << <<A_LG, A_NONE, A_PRINT_LO, A_LG>> >>
  /\ activatedBreakpoints = <<BP_PRINT_LO, BREAKPOINT_PRINT, BP_LG>>

-----------------------------------------------------------------------------
(* C15: the predicate calls target.updateStyles() exactly once for a print *)
(* event, and the call finds target.activatedBreakpoints with the value    *)
(* the event gave it; it does not call it for an ordinary event.           *)
C15_UpdateStylesOncePerPrintEvent ==
  event # <<>> =>
    IF isPrintEvent(event[1])
      THEN styled = <<activatedBreakpoints>>
      ELSE styled = <<>>

(* A print-stop processed while not printing: updateStyles was called. *)
C15_Witness ==
  /\ LastWas(IsPrintStop)
  /\ Len(styled) = 1
  /\ ~sameArray
  /\ deactivations # <<>>
  /\ styled[1] # deactivations

-----------------------------------------------------------------------------
(* C16: between a print-start and the next print-stop the print queue      *)
(* loses no entry and its entries keep their relative order; any           *)
(* print-stop empties the queue and ends print mode.                       *)
C16_AccumulateUntilStop ==
  [][ /\ (isPrinting /\ ~Processed(IsPrintStop)) =>
           SelectSeq(printBps', LAMBDA bp : bp \in Range(printBps)) = printBps
      /\ Processed(IsPrintStop) => (printBps' = <<>> /\ ~isPrinting') ]_vars

(* A print-start for a second print query since the last print-stop. *)
C16_Witness ==
  /\ LastWas(IsPrintStart)
  /\ event[1].mediaQuery = Q_PRINT_LO
  /\ printBps = <<BP_PRINT_LO, BREAKPOINT_PRINT, BP_PRINT_HI>>

-----------------------------------------------------------------------------
(* C17: an ordinary event leaves the print queue, and so isPrinting, as it *)
(* was; the queue is empty before any event, becomes non-empty only by a   *)
(* print-start and empty only by a print-stop.                             *)
C17_QueueInitiallyEmpty == event = <<>> => printBps = <<>>

C17_QueueChanges ==
  /\ Processed(IsOrdinary) => (printBps' = printBps /\ isPrinting' = isPrinting)
  /\ (printBps = <<>> /\ printBps' # <<>>) => Processed(IsPrintStart)
  /\ (printBps # <<>> /\ printBps' = <<>>) => Processed(IsPrintStop)

C17_OrdinaryKeepsQueue == []C17_QueueInitiallyEmpty /\ [][C17_QueueChanges]_vars

(* An ordinary activation processed while printing. *)
C17_Witness ==
  /\ LastWas(IsOrdinary)
  /\ event[1].matches
  /\ Len(printBps) >= 2
  /\ result = FALSE

-----------------------------------------------------------------------------
(* C18: while isPrinting holds, target.activatedBreakpoints equals the     *)
(* print queue, element for element.                                       *)
C18_TargetIsQueueWhilePrinting ==
  isPrinting => activatedBreakpoints = printBps

(* An ordinary deactivation processed while printing. *)
C18_Witness ==
  /\ LastWas(IsOrdinary)
  /\ ~event[1].matches
  /\ isPrinting
  /\ Len(deactivations) = 2
  /\ Len(activatedBreakpoints) >= 3

-----------------------------------------------------------------------------
====
